---- MODULE Spec2Model ----
\* A model of zagro.go: the Zagro event emitter (On, Once, Emit, Off,
\* RemoveAll, Count, CountAll) called from several goroutines, with the
\* mutex e.mu, the registry e.events, the counter e.nextID, and listener
\* callbacks that may call back into the emitter.
EXTENDS Integers, Sequences, FiniteSets, TLC

\* ---------------------------------------------------------------- bounds

\* Number of API calls (top-level or made from inside a user callback)
\* that the environment issues in one behaviour, after the set-up.
MaxCalls == 2

\* Number of registrations made during the set-up, before the goroutines
\* start: the behaviours start from every registry that On, Once and Off
\* calls of one goroutine can build with that many registrations for the
\* event SetupEvent.
MaxInit == 1

\* The same for the runs of a single goroutine (SpecSeq).
MaxInitSeq == 3

\* The positive MaxListeners option passed to NewZagro (0 is the other).
MaxLimit == 1

\* Number of API calls issued on an emitter that starts without listeners
\* (SpecFresh).
MaxCallsFresh == 3

Goroutines == {1, 2}
Events == {"a", "b"}
SetupEvent == "a"
NoEvent == "-"
Ops == {"On", "Once", "Emit", "Off", "RemoveAll", "Count", "CountAll"}

\* Identities of the callback closures the environment passes: the n-th
\* registration attempt passes closure n.
FirstNew == (IF MaxInit > MaxInitSeq THEN MaxInit ELSE MaxInitSeq) + 1
Closures ==
    1..(FirstNew + (IF MaxCalls > MaxCallsFresh THEN MaxCalls ELSE MaxCallsFresh) - 1)

VARIABLES
    events,        \* e.events: event name -> sequence of listeners
    nextID,        \* e.nextID
    maxListeners,  \* e.maxListeners
    mu,            \* e.mu: 0 when unlocked, else the goroutine holding it
    stack,         \* per goroutine: its call stack of frames
    ret,           \* per goroutine: the value last returned to it
    idvar,         \* per Once call: the variable id the wrapper captures
    seen,          \* per goroutine: the Once calls whose write of id it is
                   \* synchronised with (happens-before)
    muSeen,        \* the writes released through e.mu so far
    fired,         \* per closure: how many times the user callback ran
    reg,           \* per closure: the registration call it was passed to
    ncalls,        \* API calls issued so far
    active,        \* goroutines the program runs
    nesting,       \* whether user callbacks call Emit
    budget         \* how many API calls the program makes

vars == <<events, nextID, maxListeners, mu, stack, ret, idvar, seen, muSeen,
          fired, reg, ncalls, active, nesting, budget>>

\* ------------------------------------------------------- values and helpers

\* ZagroCallback values. A user closure is [once |-> FALSE, u |-> n]; the
\* wrapper built by Once captures event, the variable id (idvar[u]) and cb.
UserCb(u) == [once |-> FALSE, u |-> u, event |-> NoEvent]
Wrapper(u, e) == [once |-> TRUE, u |-> u, event |-> e]
NoCb == [once |-> FALSE, u |-> 0, event |-> NoEvent]

\* type listener struct { id int; callback ZagroCallback }
Listener(id, cb) == [id |-> id, callback |-> cb]

NoRet == [val |-> 0, err |-> FALSE]
NoReg == [kind |-> "-", event |-> NoEvent, id |-> 0, state |-> "-"]

\* The registry and e.nextID as a user callback finds them when it is
\* called: cb(msg) of line 94, or of line 76 inside the wrapper of Once.
AtInvoke(ev, n) == [events |-> ev, nextID |-> n]

Frame(op, pc, e, id, cb) ==
    [op |-> op, pc |-> pc, event |-> e, id |-> id, cb |-> cb,
     callbacks |-> <<>>, i |-> 0, atLock |-> <<>>, log |-> <<>>,
     atInvoke |-> AtInvoke(<<>>, 0)]

Top(t) == stack[t][Len(stack[t])]
Front(s) == SubSeq(s, 1, Len(s) - 1)
SetTop(s, f) == [s EXCEPT ![Len(s)] = f]
Idle(t) == stack[t] = <<>>
AtTop(t, op, pc) == ~Idle(t) /\ Top(t).op = op /\ Top(t).pc = pc

\* A lookup that falls back on the listeners of some other event.
GetAnyEvent(ev, e) ==
    IF e \in DOMAIN ev THEN ev[e]
    ELSE IF DOMAIN ev = {} THEN <<>>
    ELSE ev[CHOOSE x \in DOMAIN ev : TRUE]

\* e.events[event] on a Go map: the nil slice when the key is absent.
Get(ev, e) == IF e \in DOMAIN ev THEN ev[e] ELSE <<>>

\* e.events[event] = ls
Put(ev, e, ls) == [x \in (DOMAIN ev) \cup {e} |-> IF x = e THEN ls ELSE ev[x]]

\* Clearing the slice instead of deleting the key.
DeleteKeepsKey(ev, e) == [x \in DOMAIN ev |-> IF x = e THEN <<>> ELSE ev[x]]

\* delete(e.events, event)
Delete(ev, e) == [x \in (DOMAIN ev) \ {e} |-> ev[x]]

\* A limit test that counts the listeners of all the events together.
LimitReachedAllEvents(ev, e, max) ==
    max > 0 /\ Cardinality(UNION {{<<x, k>> : k \in 1..Len(ev[x])} : x \in DOMAIN ev}) >= max

\* The limit test with > for >=: one listener too many gets in.
LimitReachedOffByOne(ev, e, max) == max > 0 /\ Len(Get(ev, e)) > max

\* On, line 58: the limit test.
LimitReached(ev, e, max) == max > 0 /\ Len(Get(ev, e)) >= max

\* An On that takes its id before it tests the limit.
NextIDConsumed(n) == n + 1

\* On, lines 58-60: e.nextID when On returns the error, line 62 not reached.
NextIDRejected(n) == n

\* On without the increment of line 62.
NextIDStuck(n) == n

\* On, line 62: e.nextID++
NextIDAfter(n) == n + 1

\* A registration that puts the new listener in front.
OnEventsPrepend(ev, e, id, cb) ==
    Put(ev, e, <<Listener(id, cb)>> \o Get(ev, e))

\* On, lines 62-64: the registry after a successful registration.
OnEvents(ev, e, id, cb) == Put(ev, e, Append(Get(ev, e), Listener(id, cb)))

\* A search that never finds the id.
IndexOfNone(ls, id) == 0

\* A search whose index stays on the first listener when none matches.
IndexOfDefaultFirst(ls, id) ==
    IF \E i \in 1..Len(ls) : ls[i].id = id
    THEN CHOOSE i \in 1..Len(ls) :
             ls[i].id = id /\ \A j \in 1..(i - 1) : ls[j].id # id
    ELSE IF Len(ls) > 0 THEN 1 ELSE 0

\* Off, lines 106-111: index of the first listener with that id, 0 if none.
IndexOf(ls, id) ==
    IF \E i \in 1..Len(ls) : ls[i].id = id
    THEN CHOOSE i \in 1..Len(ls) :
             ls[i].id = id /\ \A j \in 1..(i - 1) : ls[j].id # id
    ELSE 0

\* Removal by moving the last listener into the hole.
RemoveAtSwap(ls, i) ==
    IF i = Len(ls) THEN SubSeq(ls, 1, Len(ls) - 1)
    ELSE SubSeq([ls EXCEPT ![i] = ls[Len(ls)]], 1, Len(ls) - 1)

\* Off, line 108: append(listeners[:i], listeners[i+1:]...)
RemoveAt(ls, i) == SubSeq(ls, 1, i - 1) \o SubSeq(ls, i + 1, Len(ls))

\* An Off without lines 112-114: the key of an emptied event stays.
OffEventsKeepsKey(ev, e, id) ==
    IF e \notin DOMAIN ev THEN ev
    ELSE LET i == IndexOf(ev[e], id)
         IN IF i = 0 THEN ev ELSE Put(ev, e, RemoveAt(ev[e], i))

\* Off, lines 102-114: the registry after Off(event, id).
OffEvents(ev, e, id) ==
    IF e \notin DOMAIN ev THEN ev
    ELSE LET ls == ev[e]
             i == IndexOf(ls, id)
             ev1 == IF i = 0 THEN ev ELSE Put(ev, e, RemoveAt(ls, i))
         IN IF Len(ev1[e]) = 0 THEN Delete(ev1, e) ELSE ev1

\* A copy loop that stops one listener short.
SnapshotShort(ls) == [k \in 1..(Len(ls) - 1) |-> ls[k].callback]

\* Emit, lines 87-90: the copied callbacks.
Snapshot(ls) == [k \in 1..Len(ls) |-> ls[k].callback]

\* CountAll, lines 135-139.
RECURSIVE SumLens(_, _)
SumLens(ev, keys) ==
    IF keys = {} THEN 0
    ELSE LET k == CHOOSE x \in keys : TRUE
         IN Len(ev[k]) + SumLens(ev, keys \ {k})

\* A CountAll that counts the events instead of their listeners.
CountAllKeys(ev) == Cardinality(DOMAIN ev)

CountAllOf(ev) == SumLens(ev, DOMAIN ev)

\* A wrapper that captured the value of id before On returned.
IdReadsEarly(t, u) == {0}

\* The values a read of the captured variable id can yield in goroutine t:
\* the written value when the write happens-before the read, and otherwise
\* (a data race) either the initial 0 or the written value.
IdReads(t, u) ==
    IF u \in seen[t] THEN {idvar[u]} ELSE {0, idvar[u]}

\* ------------------------------------------------------------------- Init

\* The ids of S in increasing order: listeners are appended with growing
\* ids (On, lines 62-64) and Off keeps the order of the others.
RECURSIVE Ascending(_)
Ascending(S) ==
    IF S = {} THEN <<>>
    ELSE LET m == CHOOSE x \in S : \A y \in S : y <= x
         IN Append(Ascending(S \ {m}), m)

\* What became of the k-th registration of the set-up: removed again by
\* Off, or still registered by On or by Once.
Removed == [kind |-> "On", event |-> NoEvent]
Slots == {Removed} \cup [kind : {"On", "Once"}, event : {SetupEvent}]

\* The callback of the set-up registration k in slot s.
SlotCb(k, s) == IF s.kind = "Once" THEN Wrapper(k, s.event) ELSE UserCb(k)

\* The registry after a set-up whose k-th registration ended in slot a[k].
SetupEvents(a) ==
    LET ids(e) == {k \in DOMAIN a : a[k].event = e}
        keys == {e \in Events : ids(e) # {}}
    IN [e \in keys |->
          LET s == Ascending(ids(e))
          IN [j \in 1..Len(s) |-> Listener(s[j], SlotCb(s[j], a[s[j]]))]]

\* The state after NewZagro (lines 42-50) and a set-up by one goroutine in
\* which every callback is registered once and none has run.
Setup(max) ==
    /\ maxListeners \in {0, MaxLimit}
    /\ \E n \in 0..max : \E a \in [1..n -> Slots] :
         /\ events = SetupEvents(a)
         /\ nextID = n
         /\ idvar = [u \in Closures |->
                       IF u <= n /\ a[u].kind = "Once" THEN u ELSE 0]
         /\ seen = [t \in Goroutines |->
                      {u \in 1..n : a[u].kind = "Once"}]
         /\ reg = [u \in Closures |->
                     IF u <= n
                     THEN [kind |-> a[u].kind, event |-> a[u].event,
                           id |-> u, state |-> "ok"]
                     ELSE NoReg]
    /\ \A e \in DOMAIN events :
         maxListeners > 0 => Len(events[e]) <= maxListeners
    /\ mu = 0
    /\ stack = [t \in Goroutines |-> <<>>]
    /\ ret = [t \in Goroutines |-> NoRet]
    /\ muSeen = seen[1]
    /\ fired = [u \in Closures |-> 0]
    /\ ncalls = 0

Init ==
    Setup(MaxInit) /\ active = Goroutines /\ nesting = TRUE /\ budget = MaxCalls

\* A single goroutine whose callbacks never call Emit.
InitSeq ==
    Setup(MaxInitSeq) /\ active = {1} /\ nesting = FALSE /\ budget = MaxCalls

\* The emitter as NewZagro returns it, used by two goroutines.
InitFresh ==
    Setup(0) /\ active = Goroutines /\ nesting = TRUE /\ budget = MaxCallsFresh

\* ---------------------------------------------------------------- actions

\* The frames pushed by a call of op with its arguments; u is the closure
\* passed to On or Once. Once (lines 70-79) builds the wrapper and calls On
\* at once, keeping its own frame to assign the result to id.
CallFrames(op, e, id, u) ==
    CASE op = "On" -> <<Frame("On", "lock", e, 0, UserCb(u))>>
      [] op = "Once" -> <<Frame("Once", "assign", e, 0, UserCb(u)),
                          Frame("On", "lock", e, 0, Wrapper(u, e))>>
      [] op = "CountAll" -> <<Frame("CountAll", "lock", NoEvent, 0, NoCb)>>
      [] op = "Off" -> <<Frame("Off", "lock", e, id, NoCb)>>
      [] OTHER -> <<Frame(op, "lock", e, 0, NoCb)>>

\* Issue one API call from goroutine t on top of the frames base.
Issue(t, base, allowed) ==
    /\ ncalls < budget
    /\ \E op \in allowed :
         \E e \in (IF op = "CountAll" THEN {NoEvent} ELSE Events) :
           \E id \in (IF op = "Off" THEN 0..nextID ELSE {0}) :
             LET u == FirstNew + ncalls IN
             /\ stack' = [stack EXCEPT ![t] = base \o CallFrames(op, e, id, u)]
             /\ reg' = IF op \in {"On", "Once"}
                       THEN [reg EXCEPT ![u] = [kind |-> op, event |-> e,
                                                 id |-> 0, state |-> "pending"]]
                       ELSE reg
    /\ ncalls' = ncalls + 1

\* A goroutine with nothing running makes an API call. The goroutines being
\* alike at the start, the one that calls first is numbered 1.
Call(t) ==
    /\ t \in active
    /\ Idle(t)
    /\ t = 1 \/ ncalls > 0
    /\ Issue(t, <<>>, Ops)
    /\ UNCHANGED <<events, nextID, maxListeners, mu, ret, idvar, seen, muSeen,
                   fired, active, nesting, budget>>

\* e.mu.Lock(), the first statement of every method.
Lock(t) ==
    /\ ~Idle(t)
    /\ Top(t).pc = "lock"
    /\ mu = 0
    /\ mu' = t
    /\ seen' = [seen EXCEPT ![t] = seen[t] \cup muSeen]
    /\ stack' = [stack EXCEPT ![t] = SetTop(stack[t], [Top(t) EXCEPT !.pc = "body"])]
    /\ UNCHANGED <<events, nextID, maxListeners, ret, idvar, muSeen, fired,
                   reg, ncalls, active, nesting, budget>>

\* e.mu.Unlock() by goroutine t.
Unlock(t) ==
    /\ mu' = 0
    /\ muSeen' = muSeen \cup seen[t]

\* Whether the frame below the top one is Once waiting for On's result.
CalledByOnce(t) ==
    Len(stack[t]) >= 2 /\ stack[t][Len(stack[t]) - 1].op = "Once"

\* On, lines 58-65, with the deferred Unlock.
OnBody(t) ==
    /\ AtTop(t, "On", "body")
    /\ mu = t
    /\ LET f == Top(t)
           u == f.cb.u
       IN IF LimitReached(events, f.event, maxListeners)
          THEN /\ ret' = [ret EXCEPT ![t] = [val |-> 0, err |-> TRUE]]
               /\ reg' = IF CalledByOnce(t) THEN reg
                         ELSE [reg EXCEPT ![u].state = "err"]
               /\ nextID' = NextIDRejected(nextID)
               /\ UNCHANGED events
          ELSE /\ nextID' = NextIDAfter(nextID)
               /\ events' = OnEvents(events, f.event, nextID', f.cb)
               /\ ret' = [ret EXCEPT ![t] = [val |-> nextID', err |-> FALSE]]
               /\ reg' = IF CalledByOnce(t) THEN reg
                         ELSE [reg EXCEPT ![u].state = "ok", ![u].id = nextID']
    /\ Unlock(t)
    /\ stack' = [stack EXCEPT ![t] = Front(stack[t])]
    /\ UNCHANGED <<maxListeners, idvar, seen, fired, ncalls, active, nesting, budget>>

\* Once, lines 79-80: id, err = e.On(event, wrapper); return id, err
OnceAssign(t) ==
    /\ AtTop(t, "Once", "assign")
    /\ LET u == Top(t).cb.u
       IN /\ idvar' = [idvar EXCEPT ![u] = ret[t].val]
          /\ seen' = [seen EXCEPT ![t] = seen[t] \cup {u}]
          /\ reg' = [reg EXCEPT ![u].state = IF ret[t].err THEN "err" ELSE "ok",
                                ![u].id = ret[t].val]
    /\ stack' = [stack EXCEPT ![t] = Front(stack[t])]
    /\ UNCHANGED <<events, nextID, maxListeners, mu, ret, muSeen, fired,
                   ncalls, active, nesting, budget>>

\* An Emit that keeps e.mu during the dispatch.
HolderKept(t) == t

\* Emit, line 91: the holder of e.mu once the copy is made (none).
HolderAfterCopy(t) == 0

\* Emit, lines 87-91: copy the callbacks and unlock.
EmitSnapshot(t) ==
    /\ AtTop(t, "Emit", "body")
    /\ mu = t
    /\ LET f == Top(t)
           ls == Get(events, f.event)
       IN stack' = [stack EXCEPT ![t] = SetTop(stack[t],
                      [f EXCEPT !.pc = "loop", !.callbacks = Snapshot(ls),
                                !.i = 1, !.atLock = ls])]
    /\ mu' = HolderAfterCopy(t)
    /\ muSeen' = muSeen \cup seen[t]
    /\ UNCHANGED <<events, nextID, maxListeners, ret, idvar, seen, fired,
                   reg, ncalls, active, nesting, budget>>

\* The frame that runs callback value cb: the user closure itself, or the
\* wrapper of Once about to call e.Off(event, id).
CbFrame(cb) ==
    IF cb.once THEN Frame("wrapper", "off", cb.event, 0, cb)
    ELSE Frame("cb", "run", NoEvent, 0, cb)

\* The loop index after invoking callbacks[i].
NextIndex(i) == i + 1

\* Emit, lines 93-95: cb(msg) for the next callback of the copy.
EmitInvoke(t) ==
    /\ AtTop(t, "Emit", "loop")
    /\ LET f == Top(t)
       IN /\ f.i <= Len(f.callbacks)
          /\ LET cb == f.callbacks[f.i]
                 f1 == [f EXCEPT !.i = NextIndex(f.i), !.log = Append(f.log, cb)]
             IN /\ stack' = [stack EXCEPT ![t] =
                               Append(SetTop(stack[t], f1),
                                      IF cb.once THEN CbFrame(cb)
                                      ELSE [CbFrame(cb) EXCEPT
                                              !.atInvoke = AtInvoke(events, nextID)])]
                /\ fired' = IF cb.once THEN fired
                            ELSE [fired EXCEPT ![cb.u] = fired[cb.u] + 1]
    /\ UNCHANGED <<events, nextID, maxListeners, mu, ret, idvar, seen, muSeen,
                   reg, ncalls, active, nesting, budget>>

\* Emit, line 96: the loop is over and Emit returns.
EmitReturn(t) ==
    /\ AtTop(t, "Emit", "loop")
    /\ Top(t).i > Len(Top(t).callbacks)
    /\ stack' = [stack EXCEPT ![t] = Front(stack[t])]
    /\ UNCHANGED <<events, nextID, maxListeners, mu, ret, idvar, seen, muSeen,
                   fired, reg, ncalls, active, nesting, budget>>

\* Off, lines 100-115, with the deferred Unlock.
OffBody(t) ==
    /\ AtTop(t, "Off", "body")
    /\ mu = t
    /\ events' = OffEvents(events, Top(t).event, Top(t).id)
    /\ Unlock(t)
    /\ stack' = [stack EXCEPT ![t] = Front(stack[t])]
    /\ UNCHANGED <<nextID, maxListeners, ret, idvar, seen, fired, reg, ncalls,
                   active, nesting, budget>>

\* RemoveAll, lines 118-122.
RemoveAllBody(t) ==
    /\ AtTop(t, "RemoveAll", "body")
    /\ mu = t
    /\ events' = Delete(events, Top(t).event)
    /\ Unlock(t)
    /\ stack' = [stack EXCEPT ![t] = Front(stack[t])]
    /\ UNCHANGED <<nextID, maxListeners, ret, idvar, seen, fired, reg, ncalls,
                   active, nesting, budget>>

\* Count, lines 125-129.
CountBody(t) ==
    /\ AtTop(t, "Count", "body")
    /\ mu = t
    /\ ret' = [ret EXCEPT ![t] = [val |-> Len(Get(events, Top(t).event)),
                                  err |-> FALSE]]
    /\ Unlock(t)
    /\ stack' = [stack EXCEPT ![t] = Front(stack[t])]
    /\ UNCHANGED <<events, nextID, maxListeners, idvar, seen, fired, reg,
                   ncalls, active, nesting, budget>>

\* CountAll, lines 132-140.
CountAllBody(t) ==
    /\ AtTop(t, "CountAll", "body")
    /\ mu = t
    /\ ret' = [ret EXCEPT ![t] = [val |-> CountAllOf(events), err |-> FALSE]]
    /\ Unlock(t)
    /\ stack' = [stack EXCEPT ![t] = Front(stack[t])]
    /\ UNCHANGED <<events, nextID, maxListeners, idvar, seen, fired, reg,
                   ncalls, active, nesting, budget>>

\* The wrapper of Once, line 75: read id and call e.Off(event, id).
WrapperOff(t) ==
    /\ AtTop(t, "wrapper", "off")
    /\ LET f == Top(t)
       IN \E v \in IdReads(t, f.cb.u) :
            stack' = [stack EXCEPT ![t] =
                        Append(SetTop(stack[t], [f EXCEPT !.pc = "cb"]),
                               Frame("Off", "lock", f.event, v, NoCb))]
    /\ UNCHANGED <<events, nextID, maxListeners, mu, ret, idvar, seen, muSeen,
                   fired, reg, ncalls, active, nesting, budget>>

\* The wrapper of Once, line 76: cb(msg).
WrapperCb(t) ==
    /\ AtTop(t, "wrapper", "cb")
    /\ LET f == Top(t)
           u == f.cb.u
       IN /\ stack' = [stack EXCEPT ![t] =
                         Append(SetTop(stack[t], [f EXCEPT !.pc = "ret"]),
                                [Frame("cb", "run", NoEvent, 0, UserCb(u)) EXCEPT
                                   !.atInvoke = AtInvoke(events, nextID)])]
          /\ fired' = [fired EXCEPT ![u] = fired[u] + 1]
    /\ UNCHANGED <<events, nextID, maxListeners, mu, ret, idvar, seen, muSeen,
                   reg, ncalls, active, nesting, budget>>

\* The body of a user callback: it calls one method of the emitter ...
CbCall(t) ==
    /\ AtTop(t, "cb", "run")
    /\ Issue(t, SetTop(stack[t], [Top(t) EXCEPT !.pc = "ret"]),
             IF nesting THEN Ops ELSE Ops \ {"Emit"})
    /\ UNCHANGED <<events, nextID, maxListeners, mu, ret, idvar, seen, muSeen,
                   fired, active, nesting, budget>>

\* ... or none, and returns; the wrapper returns after its cb has.
CbReturn(t) ==
    /\ ~Idle(t)
    /\ \/ Top(t).op = "cb" /\ Top(t).pc \in {"run", "ret"}
       \/ Top(t).op = "wrapper" /\ Top(t).pc = "ret"
    /\ stack' = [stack EXCEPT ![t] = Front(stack[t])]
    /\ UNCHANGED <<events, nextID, maxListeners, mu, ret, idvar, seen, muSeen,
                   fired, reg, ncalls, active, nesting, budget>>

\* The position of the innermost frame of Emit in the frames s.
InnerEmit(s) ==
    CHOOSE k \in 1..Len(s) :
        s[k].op = "Emit" /\ \A j \in (k + 1)..Len(s) : s[j].op # "Emit"

\* What is left of the Emit em that a panic ended while it ran the frame c
\* of a callback of its copy: the copy it was dispatching, what it had
\* invoked, the callback of the copy that failed, and what the user
\* callback that panicked (frame top) found when it was called.
PanicFrame(em, c, top) ==
    [Frame("panic", "unwound", em.event, 0, c.cb)
       EXCEPT !.callbacks = em.callbacks, !.i = em.i, !.atLock = em.atLock,
              !.log = em.log, !.atInvoke = top.atInvoke]

\* An Emit that recovers the panic of a callback and goes on with its loop.
UnwindToEmit(s) ==
    Append(SubSeq(s, 1, InnerEmit(s)),
           PanicFrame(s[InnerEmit(s)], s[InnerEmit(s) + 1], s[Len(s)]))

\* The stack after the callback on top of s panicked. Emit (lines 85-96),
\* the wrapper of Once (lines 74-77) and the callbacks have no recover, so
\* the panic leaves every frame, up to the caller of the outermost Emit.
Unwind(s) == <<PanicFrame(s[InnerEmit(s)], s[InnerEmit(s) + 1], s[Len(s)])>>

\* A user callback panics as it starts (cb(msg), line 94 or 76).
CbPanic(t) ==
    /\ AtTop(t, "cb", "run")
    /\ stack' = [stack EXCEPT ![t] = Unwind(stack[t])]
    /\ UNCHANGED <<events, nextID, maxListeners, mu, ret, idvar, seen, muSeen,
                   fired, reg, ncalls, active, nesting, budget>>

\* The caller of Emit recovers the panic and goes on.
Recover(t) ==
    /\ AtTop(t, "panic", "unwound")
    /\ stack' = [stack EXCEPT ![t] = Front(stack[t])]
    /\ UNCHANGED <<events, nextID, maxListeners, mu, ret, idvar, seen, muSeen,
                   fired, reg, ncalls, active, nesting, budget>>

\* A user callback blocks and never returns.
CbBlock(t) ==
    /\ AtTop(t, "cb", "run")
    /\ stack' = [stack EXCEPT ![t] = SetTop(stack[t], [Top(t) EXCEPT !.pc = "blocked"])]
    /\ UNCHANGED <<events, nextID, maxListeners, mu, ret, idvar, seen, muSeen,
                   fired, reg, ncalls, active, nesting, budget>>

Next ==
    \E t \in Goroutines :
        \/ Call(t)
        \/ Lock(t)
        \/ OnBody(t)
        \/ OnceAssign(t)
        \/ EmitSnapshot(t)
        \/ EmitInvoke(t)
        \/ EmitReturn(t)
        \/ OffBody(t)
        \/ RemoveAllBody(t)
        \/ CountBody(t)
        \/ CountAllBody(t)
        \/ WrapperOff(t)
        \/ WrapperCb(t)
        \/ CbCall(t)
        \/ CbReturn(t)
        \/ CbPanic(t)
        \/ Recover(t)
        \/ CbBlock(t)

Spec == Init /\ [][Next]_vars

SpecSeq == InitSeq /\ [][Next]_vars

SpecFresh == InitFresh /\ [][Next]_vars

\* A step of a call goroutine t has in progress: the goroutine, once inside
\* a method or a callback, goes on running.
Step(t) ==
    \/ Lock(t)
    \/ OnBody(t)
    \/ OnceAssign(t)
    \/ EmitSnapshot(t)
    \/ EmitInvoke(t)
    \/ EmitReturn(t)
    \/ OffBody(t)
    \/ RemoveAllBody(t)
    \/ CountBody(t)
    \/ CountAllBody(t)
    \/ WrapperOff(t)
    \/ WrapperCb(t)
    \/ CbCall(t)
    \/ CbReturn(t)
    \/ CbPanic(t)
    \/ Recover(t)
    \/ CbBlock(t)

\* The Go scheduler runs every runnable goroutine again and again, and a
\* goroutine waiting in e.mu.Lock() is runnable when the mutex is free.
Fairness == \A t \in Goroutines : WF_vars(Step(t))

\* Two goroutines on an emitter whose set-up made one registration, with
\* callbacks that do not call Emit themselves.
InitLive ==
    /\ Setup(MaxInit)
    /\ nextID = 1
    /\ active = Goroutines
    /\ nesting = FALSE
    /\ budget = MaxCalls

SpecLive == InitLive /\ [][Next]_vars /\ Fairness

\* The runs of one goroutine, and the runs of two goroutines on an emitter
\* whose set-up made one registration, with callbacks that may call Emit.
InitPanic ==
    \/ InitSeq
    \/ /\ Setup(MaxInit)
       /\ nextID = 1
       /\ active = Goroutines
       /\ nesting = TRUE
       /\ budget = MaxCalls

SpecPanic == InitPanic /\ [][Next]_vars

\* ----------------------------------------------------------- properties

\* The ids of the listeners registered under some event.
RegisteredIds ==
    UNION {{events[e][k].id : k \in 1..Len(events[e])} : e \in DOMAIN events}

\* The frames of Emit calls that are dispatching their copy.
EmitFrames ==
    {f \in UNION {{stack[t][k] : k \in 1..Len(stack[t])} : t \in Goroutines} :
        f.op = "Emit" /\ f.pc = "loop"}

\* The frames of Emit calls whose loop is over: every callback of the copy
\* has returned and Emit is about to return.
EndedEmits ==
    {f \in {Top(t) : t \in {x \in Goroutines : ~Idle(x)}} :
        f.op = "Emit" /\ f.pc = "loop" /\ f.i > Len(f.callbacks)}

\* The callbacks of a listener sequence, in its order.
CbsOf(ls) == [k \in 1..Len(ls) |-> ls[k].callback]

\* The registrations that returned an id to their caller.
Issued == {u \in Closures : reg[u].state = "ok"}

\* Goroutine t takes a step out of the critical section of method op.
BodyStep(t, op) == AtTop(t, op, "body") /\ stack'[t] # stack[t]

\* C1: the user callback of a Once registration is invoked at most once
\* over the lifetime of the emitter, whatever Emits follow (sequential,
\* concurrent, or nested inside callbacks of the same event).
OnceAtMostOnce ==
    \A u \in Closures : reg[u].kind = "Once" => fired[u] <= 1

\* C2: every id returned by a successful On or Once is non-zero and differs
\* from every id returned by another registration, also from the ids of
\* listeners removed since; nextID never decreases.
UniqueIds ==
    /\ [](\A u \in Issued :
            /\ reg[u].id # 0
            /\ reg[u].id <= nextID
            /\ \A v \in Issued : v # u => reg[v].id # reg[u].id)
    /\ [][nextID' >= nextID]_vars

\* An id was returned by a call of this run while the listener of an id
\* returned earlier is no longer registered.
UniqueIdsWitness ==
    \E u \in Issued : \E v \in Issued :
        /\ u >= FirstNew
        /\ reg[v].id < reg[u].id
        /\ reg[v].id \notin RegisteredIds
        /\ reg[u].id \in RegisteredIds

\* C3: with MaxListeners = K > 0 no event ever holds more than K listeners,
\* and On (also the On inside Once, whose result Once returns) fails with
\* id 0 and leaves the registry alone when it finds the event holding K.
LimitRespected ==
    /\ [](maxListeners > 0 =>
            \A e \in DOMAIN events : Len(events[e]) <= maxListeners)
    /\ [][\A t \in Goroutines :
            /\ (/\ BodyStep(t, "On")
                /\ maxListeners > 0
                /\ Len(Get(events, Top(t).event)) >= maxListeners)
               => /\ ret'[t] = [val |-> 0, err |-> TRUE]
                  /\ events' = events
            /\ (AtTop(t, "Once", "assign") /\ stack'[t] # stack[t])
               => ret'[t] = ret[t]]_vars

\* A registration was refused and its event holds exactly K listeners.
LimitRespectedWitness ==
    \E u \in Closures :
        /\ reg[u].state = "err"
        /\ maxListeners > 0
        /\ Len(Get(events, reg[u].event)) = maxListeners

\* C4: an Emit invokes the callbacks that the event's sequence held when
\* the copy was made under the lock, each once and no other: what it has
\* invoked so far is a prefix of them, and all of them when its loop ends.
SnapshotDispatch ==
    \A f \in EmitFrames :
        /\ Len(f.log) <= Len(f.atLock)
        /\ f.log = SubSeq(CbsOf(f.atLock), 1, Len(f.log))
        /\ f \in EndedEmits => f.log = CbsOf(f.atLock)
        /\ \A p, q \in 1..Len(f.log) : p # q => f.log[p] # f.log[q]

\* An Emit has finished its loop having invoked a listener that was removed
\* after the copy, while a listener added after the copy was not invoked.
SnapshotDispatchWitness ==
    \E f \in EndedEmits :
        LET now == Get(events, f.event)
            ids(ls) == {ls[k].id : k \in 1..Len(ls)}
        IN /\ f.log # <<>>
           /\ ids(f.atLock) \ ids(now) # {}
           /\ ids(now) \ ids(f.atLock) # {}

\* The ids of a listener sequence.
IdsOf(ls) == {ls[k].id : k \in 1..Len(ls)}

\* The id under which callback cb stands in the listener sequence ls.
IdOfCb(ls, cb) == ls[CHOOSE k \in 1..Len(ls) : ls[k].callback = cb].id

\* C5: within one Emit the callbacks run in registration order: of two
\* listeners of the copy the one with the smaller id runs first, the
\* sequences of the registry being kept in that order by On and Off.
RegistrationOrder ==
    /\ \A e \in DOMAIN events :
         \A p, q \in 1..Len(events[e]) :
            p < q => events[e][p].id < events[e][q].id
    /\ \A f \in EmitFrames :
         \A p, q \in 1..Len(f.log) :
            p < q => IdOfCb(f.atLock, f.log[p]) < IdOfCb(f.atLock, f.log[q])

\* An Emit has run two or more callbacks to the end of its loop after an
\* Off of this run removed an older listener of the same event.
RegistrationOrderWitness ==
    \E f \in EndedEmits : \E u \in Issued :
        /\ Len(f.log) >= 2
        /\ reg[u].event = f.event
        /\ reg[u].id \notin RegisteredIds
        /\ reg[u].id \notin IdsOf(f.atLock)
        /\ \E k \in IdsOf(f.atLock) : reg[u].id < k

\* C6: a goroutine never runs a callback, nor the dispatch loop of Emit,
\* while it holds e.mu, and never calls Lock while it holds e.mu itself (a
\* callback that calls back into the emitter does not deadlock on itself).
LockFreeDispatch ==
    \A t \in Goroutines :
        (/\ ~Idle(t)
         /\ \/ Top(t).op \in {"cb", "wrapper"}
            \/ Top(t).op = "Emit" /\ Top(t).pc = "loop"
            \/ Top(t).pc = "lock")
        => mu # t

\* A user callback, run by Emit, has called a method of the emitter that
\* took the lock and returned to the callback.
LockFreeDispatchWitness ==
    \E t \in Goroutines :
        /\ AtTop(t, "cb", "ret")
        /\ stack[t][1].op = "Emit"
        /\ mu # t

\* C7: in a run of one goroutine without nested Emits, the callback of a
\* successful Once runs at most once, has not run while its listener is
\* still registered, and when an Emit whose copy holds it ends its loop
\* the callback has run exactly once and the listener is gone.
OnceSequential ==
    \A u \in Closures :
        (reg[u].kind = "Once" /\ reg[u].state = "ok") =>
            /\ fired[u] <= 1
            /\ reg[u].id \in RegisteredIds => fired[u] = 0
            /\ \A f \in EndedEmits :
                 (\E k \in 1..Len(f.callbacks) :
                     f.callbacks[k] = Wrapper(u, reg[u].event))
                 => /\ fired[u] = 1
                    /\ reg[u].id \notin RegisteredIds
                    /\ reg[u].id \notin IdsOf(Get(events, reg[u].event))

\* The callback of a Once has run once, and a later Emit of the same event
\* has made its copy without it.
OnceSequentialWitness ==
    \E u \in Closures :
        /\ reg[u].kind = "Once"
        /\ fired[u] = 1
        /\ AtTop(1, "Emit", "loop")
        /\ Len(stack[1]) = 1
        /\ Top(1).event = reg[u].event
        /\ Top(1).log = <<>>
        /\ \A k \in 1..Len(Top(1).callbacks) :
              Top(1).callbacks[k] # Wrapper(u, reg[u].event)

\* C8: Off(event, id) with the id registered under event removes that one
\* listener: the count drops by 1, the others keep their order, the other
\* events and nextID are untouched.
OffRemovesOne ==
    [][\A t \in Goroutines :
         LET f == Top(t)
             ls == Get(events, f.event)
         IN (BodyStep(t, "Off") /\ f.id \in IdsOf(ls)) =>
              /\ Len(Get(events', f.event)) = Len(ls) - 1
              /\ Get(events', f.event) = SelectSeq(ls, LAMBDA l : l.id # f.id)
              /\ \A e \in Events \ {f.event} :
                    /\ Get(events', e) = Get(events, e)
                    /\ (e \in DOMAIN events') = (e \in DOMAIN events)
              /\ nextID' = nextID]_vars

\* The Off called by the wrapper of Once has just returned, having removed
\* the middle one of three listeners and left the other two in place.
OffRemovesOneWitness ==
    \E t \in Goroutines :
        /\ AtTop(t, "wrapper", "cb")
        /\ LET below == stack[t][Len(stack[t]) - 1]
           IN /\ below.op = "Emit"
              /\ Len(below.atLock) = 3
              /\ below.atLock[2].callback = Top(t).cb
              /\ Get(events, Top(t).event) = <<below.atLock[1], below.atLock[3]>>

\* C9: Off(event, id) changes nothing (registry, keys, nextID) and reports
\* nothing when event has no listener with that id: no listeners at all, an
\* unknown id, or an id registered under another event. Count of an event
\* without listeners and CountAll of an empty registry return 0.
AbsentIsNoOp ==
    [][\A t \in Goroutines :
         LET f == Top(t)
             ls == Get(events, f.event)
         IN /\ (BodyStep(t, "Off") /\ f.id \notin IdsOf(ls)) =>
                 /\ events' = events
                 /\ nextID' = nextID
                 /\ ret' = ret
            /\ (BodyStep(t, "Count") /\ ls = <<>>) =>
                 /\ ret'[t] = [val |-> 0, err |-> FALSE]
                 /\ events' = events
            /\ (BodyStep(t, "CountAll") /\ DOMAIN events = {}) =>
                 /\ ret'[t] = [val |-> 0, err |-> FALSE]
                 /\ events' = events]_vars

\* Off holds the lock for an id that is registered, but under the other
\* event, while its own event has listeners too.
AbsentIsNoOpWitness ==
    \E t \in Goroutines :
        /\ AtTop(t, "Off", "body")
        /\ Get(events, Top(t).event) # <<>>
        /\ Top(t).id \notin IdsOf(Get(events, Top(t).event))
        /\ Top(t).id \in RegisteredIds

\* C10: RemoveAll(event) leaves event without listeners and without a key
\* in the registry, whatever it held, and leaves the other events and
\* nextID untouched.
RemoveAllClears ==
    [][\A t \in Goroutines :
         LET f == Top(t)
         IN BodyStep(t, "RemoveAll") =>
              /\ f.event \notin DOMAIN events'
              /\ Len(Get(events', f.event)) = 0
              /\ \A e \in Events \ {f.event} :
                    /\ Get(events', e) = Get(events, e)
                    /\ (e \in DOMAIN events') = (e \in DOMAIN events)
              /\ nextID' = nextID]_vars

\* RemoveAll holds the lock for an event with two listeners while the other
\* event has listeners as well.
RemoveAllClearsWitness ==
    \E t \in Goroutines :
        /\ AtTop(t, "RemoveAll", "body")
        /\ Len(Get(events, Top(t).event)) >= 2
        /\ \E e \in DOMAIN events : e # Top(t).event

\* C11: Emit(A) invokes only callbacks of listeners registered under A: each
\* callback an Emit has invoked, and each callback running on top of an Emit,
\* was passed to an On or Once call for the event of that Emit, whatever the
\* other events hold.
EventIsolation ==
    /\ \A f \in EmitFrames :
         \A k \in 1..Len(f.log) :
            /\ reg[f.log[k].u].event = f.event
            /\ f.log[k].once => f.log[k].event = f.event
            /\ f.log[k] \in {f.atLock[j].callback : j \in 1..Len(f.atLock)}
    /\ \A t \in Goroutines : \A k \in 2..Len(stack[t]) :
         (stack[t][k].op \in {"cb", "wrapper"} /\ stack[t][k - 1].op = "Emit")
         => reg[stack[t][k].cb.u].event = stack[t][k - 1].event

\* An Emit has invoked every listener of its event to the end of its loop
\* while the other event holds a listener, whose callback has never run.
EventIsolationWitness ==
    \E f \in EndedEmits : \E e \in DOMAIN events :
        /\ f.log # <<>>
        /\ e # f.event
        /\ \A k \in 1..Len(events[e]) : fired[events[e][k].callback.u] = 0

\* C12: On(event, cb) succeeds exactly when MaxListeners is 0 or the event
\* itself holds fewer than MaxListeners listeners at the time On holds the
\* lock, whatever the other events hold; a success appends the listener. So
\* an On after an Off or RemoveAll that emptied a full event succeeds.
OnSucceedsIff ==
    [][\A t \in Goroutines :
         BodyStep(t, "On") =>
           LET f == Top(t)
               ls == Get(events, f.event)
           IN /\ (~ret'[t].err) <=> (maxListeners = 0 \/ Len(ls) < maxListeners)
              /\ ~ret'[t].err =>
                   Get(events', f.event) = Append(ls, Listener(ret'[t].val, f.cb))]_vars

\* With a positive limit, a registration of this run succeeded for an event
\* that is full again, after an older listener of that event was removed.
OnSucceedsIffWitness ==
    \E u \in Issued : \E v \in Issued :
        /\ u >= FirstNew
        /\ maxListeners > 0
        /\ reg[v].event = reg[u].event
        /\ reg[v].id < reg[u].id
        /\ reg[v].id \notin RegisteredIds
        /\ reg[u].id \in IdsOf(Get(events, reg[u].event))
        /\ Len(Get(events, reg[u].event)) = maxListeners

\* The closures that stand in the registry, as a user callback or inside
\* the wrapper of Once.
RegisteredClosures ==
    UNION {{events[e][k].callback.u : k \in 1..Len(events[e])} : e \in DOMAIN events}

\* C13: an On or Once refused for the limit returns id 0 and an error and
\* leaves the emitter as it was: no event gains a listener, nextID is not
\* advanced, and the refused callback is in no registry sequence, in no
\* copy of an Emit, and is never invoked.
RejectedLeavesNoTrace ==
    /\ [](\A u \in Closures :
            reg[u].state = "err" =>
               /\ reg[u].id = 0
               /\ fired[u] = 0
               /\ u \notin RegisteredClosures
               /\ \A f \in EmitFrames : \A k \in 1..Len(f.callbacks) :
                     f.callbacks[k].u # u)
    /\ [][\A t \in Goroutines :
            /\ (BodyStep(t, "On") /\ ret'[t].err) =>
                  /\ ret'[t].val = 0
                  /\ events' = events
                  /\ nextID' = nextID
                  /\ Top(t).cb.u \notin RegisteredClosures
            /\ (AtTop(t, "Once", "assign") /\ stack'[t] # stack[t] /\ ret[t].err) =>
                  /\ ret'[t] = [val |-> 0, err |-> TRUE]
                  /\ reg'[Top(t).cb.u].state = "err"
                  /\ events' = events
                  /\ nextID' = nextID]_vars

\* A Once was refused, and afterwards an Emit of its event ran the listeners
\* of that event to the end of its loop.
RejectedLeavesNoTraceWitness ==
    \E u \in Closures : \E f \in EndedEmits :
        /\ reg[u].kind = "Once"
        /\ reg[u].state = "err"
        /\ f.event = reg[u].event
        /\ f.log # <<>>

\* C14: in every reachable state each key of the registry maps to at least
\* one listener, whatever On, Once, Off, RemoveAll and Emit (with the Off of
\* a Once wrapper) did, in whatever interleaving.
NoEmptyKey ==
    \A e \in DOMAIN events : Len(events[e]) >= 1

\* The wrapper of a Once has removed the last listener of its event and the
\* event is no longer a key, while the callback runs.
NoEmptyKeyWitness ==
    \E t \in Goroutines :
        /\ AtTop(t, "cb", "run")
        /\ Len(stack[t]) >= 3
        /\ LET w == stack[t][Len(stack[t]) - 1]
               em == stack[t][Len(stack[t]) - 2]
           IN /\ w.op = "wrapper"
              /\ em.op = "Emit"
              /\ Len(em.atLock) = 1
              /\ em.event \notin DOMAIN events

\* The positions of the registry: one per registered listener.
Positions ==
    UNION {{<<e, k>> : k \in 1..Len(events[e])} : e \in DOMAIN events}

\* C15: CountAll returns the number of listeners the registry holds, over
\* all events, at the instant CountAll holds the lock, which is the sum of
\* what Count returns for each event at that instant; a Once listener that
\* has fired and removed itself is counted by neither.
CountAllIsSum ==
    [][\A t \in Goroutines :
         /\ BodyStep(t, "CountAll") =>
               /\ ret'[t].val = Cardinality(Positions)
               /\ ret'[t].val = Len(Get(events, "a")) + Len(Get(events, "b"))
               /\ ret'[t].val = Cardinality(RegisteredIds)
               /\ ~ret'[t].err
               /\ events' = events
         /\ BodyStep(t, "Count") =>
               /\ ret'[t].val = Cardinality(IdsOf(Get(events, Top(t).event)))
               /\ ret'[t].val =
                    Cardinality({p \in Positions : p[1] = Top(t).event})
               /\ events' = events]_vars

\* CountAll holds the lock after a Once listener has fired and removed
\* itself, while two or more listeners remain.
CountAllIsSumWitness ==
    \E t \in Goroutines : \E u \in Issued :
        /\ AtTop(t, "CountAll", "body")
        /\ reg[u].kind = "Once"
        /\ fired[u] = 1
        /\ reg[u].id \notin RegisteredIds
        /\ Cardinality(Positions) >= 2

\* C16: when the user callback of a Once listener calls Emit for the event
\* of that listener, the copy this nested Emit makes does not hold the
\* wrapper of the listener (so the nested Emit does not invoke the callback
\* again), the wrapper having removed the listener before the callback.
NestedEmitSkipsOnce ==
    \A t \in Goroutines : \A k \in 3..Len(stack[t]) :
        LET em == stack[t][k]
            c == stack[t][k - 1]
            w == stack[t][k - 2]
        IN (/\ em.op = "Emit"
            /\ em.pc = "loop"
            /\ c.op = "cb"
            /\ w.op = "wrapper"
            /\ em.event = w.event)
           => \A i \in 1..Len(em.callbacks) : em.callbacks[i] # w.cb

\* Goroutine t is inside a callback that never returns.
Stuck(t) == \E k \in 1..Len(stack[t]) : stack[t][k].pc = "blocked"

\* C17: while the Emit of one goroutine is stuck for ever in a callback that
\* never returns, every call (On, Once, Off, RemoveAll, Count, CountAll,
\* Emit, for any event) that another goroutine has in progress eventually
\* completes, if that goroutine keeps being scheduled.
OthersComplete ==
    \A s \in Goroutines : \A t \in Goroutines \ {s} :
        (Stuck(s) /\ ~Idle(t)) ~> (Idle(t) \/ Stuck(t))

\* One goroutine is stuck in a callback while the other holds the lock in
\* the middle of a call for the same event.
OthersCompleteWitness ==
    \E s \in Goroutines : \E t \in Goroutines \ {s} :
        /\ Stuck(s)
        /\ mu = t
        /\ Top(t).pc = "body"
        /\ Top(t).event = stack[s][1].event

\* C18: whenever the wrapper of a Once runs, the Off it calls is given the
\* id under which the wrapper was registered, and once that Off has
\* returned the wrapper stands in no sequence of the registry; also when
\* another goroutine's Emit copied the wrapper before Once stored the id
\* returned by On.
OnceRemovesItself ==
    \A t \in Goroutines : \A k \in 1..Len(stack[t]) :
        LET w == stack[t][k]
            ls == Get(events, w.event)
        IN w.op = "wrapper" =>
             /\ (/\ k < Len(stack[t])
                 /\ stack[t][k + 1].op = "Off"
                 /\ \E j \in 1..Len(ls) : ls[j].callback = w.cb)
                => stack[t][k + 1].id = IdOfCb(ls, w.cb)
             /\ (\/ w.pc = "ret"
                 \/ w.pc = "cb" /\ k = Len(stack[t]))
                => \A j \in 1..Len(ls) : ls[j].callback # w.cb

\* C19: once Off(event, id) or RemoveAll(event) has returned, the removed
\* listener is in the registry no more and never returns to it, and an Emit
\* copies, at the instant it holds the lock, the callbacks of the listeners
\* registered then and invokes callbacks of its copy only: an Emit that
\* takes its copy after the removal does not invoke the removed listener.
RemovedStaysOut ==
    [][/\ \A t \in Goroutines :
            LET f == Top(t)
                ls == Get(events, f.event)
            IN /\ BodyStep(t, "Off") => f.id \notin IdsOf(Get(events', f.event))
               /\ BodyStep(t, "RemoveAll") => Get(events', f.event) = <<>>
               /\ BodyStep(t, "Emit") =>
                    /\ stack'[t][Len(stack'[t])].callbacks = CbsOf(ls)
                    /\ \A u \in Issued :
                         (reg[u].event = f.event /\ reg[u].id \notin IdsOf(ls))
                         => \A k \in 1..Len(stack'[t][Len(stack'[t])].callbacks) :
                               stack'[t][Len(stack'[t])].callbacks[k].u # u
               /\ (AtTop(t, "Emit", "loop") /\ Len(stack'[t]) > Len(stack[t])) =>
                    \E k \in 1..Len(f.callbacks) :
                       stack'[t][Len(stack'[t])].cb = f.callbacks[k]
       /\ \A id \in 1..nextID :
            id \notin RegisteredIds => id \notin RegisteredIds']_vars

\* An Emit dispatches a copy made after a listener of its event, registered
\* from the start, was removed: the copy is without it and its callback has
\* not run.
RemovedStaysOutWitness ==
    \E f \in EmitFrames : \E u \in Issued :
        /\ u < FirstNew
        /\ reg[u].event = f.event
        /\ reg[u].id \notin IdsOf(f.atLock)
        /\ reg[u].id \notin RegisteredIds
        /\ fired[u] = 0

====
